---- MODULE Spec2Model ----
(***************************************************************************)
(* Model of src/main.rs: the per-pixel un-premultiply of render_chunked,   *)
(* its parallel collection and hand-off to the JPEG encoder, and the       *)
(* RGBA -> ARGB word packing of u8rgba_u32argb.                            *)
(*                                                                         *)
(* A u32 pixel word is held as the signed 32-bit integer with the same bit *)
(* pattern (TLC's integers are 32 bits wide), so bit 31 is the sign.       *)
(* An f32 is held as [m |-> mantissa, e |-> exponent] with value m * 2^e   *)
(* and 2^23 <= m < 2^24 (a normal number), or m = 0 for +0.0.  Every value *)
(* the code computes from byte operands is +0.0 or a normal number.        *)
(***************************************************************************)
EXTENDS Integers, Sequences, FiniteSets

\* ---------------------------------------------------------------- bytes, words

Byte == 0..255

\* (x >> sh) & 0xFF on a 32-bit word
Lane(word, sh) == (word \div (2^sh)) % 256

\* (a << 24) as a u32 bit pattern
Shl24(a) == (IF a >= 128 THEN a - 256 ELSE a) * (2^24)

\* (a << 24) | (r << 16) | (g << 8) | b: the four byte lanes do not overlap,
\* so the bitwise or is the sum
PackARGB(r, g, b, a) == Shl24(a) + r * (2^16) + g * (2^8) + b

\* ---------------------------------------------------------------- f32

F32Zero == [m |-> 0, e |-> 0]

RECURSIVE Normalize(_, _)
Normalize(m, e) == IF m >= 2^23 THEN [m |-> m, e |-> e] ELSE Normalize(2 * m, e - 1)

\* `n as f32` for an integer 0 <= n < 2^24: exact
FromInt(n) == IF n = 0 THEN F32Zero ELSE Normalize(n, 0)

F255 == FromInt(255)

\* IEEE-754 round-to-nearest, ties-to-even, of (q + rem/d) * 2^e to 24 bits
RoundNearestEven(q, rem, d, e) ==
    LET up == (2 * rem > d) \/ (2 * rem = d /\ q % 2 = 1)
        q1 == IF up THEN q + 1 ELSE q
    IN  IF q1 = 2^24 THEN [m |-> 2^23, e |-> e + 1] ELSE [m |-> q1, e |-> e]

\* binary long division: one quotient bit per step until the quotient has 24 bits
RECURSIVE LongDiv(_, _, _, _)
LongDiv(q, rem, d, e) ==
    IF q >= 2^23 THEN RoundNearestEven(q, rem, d, e)
    ELSE IF 2 * rem >= d THEN LongDiv(2 * q + 1, 2 * rem - d, d, e - 1)
         ELSE LongDiv(2 * q, 2 * rem, d, e - 1)

\* x / y in f32, y # 0
DivF32(x, y) ==
    IF x.m = 0 THEN F32Zero
    ELSE LongDiv(x.m \div y.m, x.m % y.m, y.m, x.e - y.e)

\* x < y for non-negative f32
LessF32(x, y) ==
    IF y.m = 0 THEN FALSE
    ELSE IF x.m = 0 THEN TRUE
    ELSE x.e < y.e \/ (x.e = y.e /\ x.m < y.m)

\* f32::min
MinF32(x, y) == IF LessF32(y, x) THEN y ELSE x

\* the integer part of a non-negative f32 below 2^24
TruncF32(x) ==
    IF x.m = 0 \/ x.e <= -24 THEN 0
    ELSE IF x.e >= 0 THEN x.m
    ELSE x.m \div (2^(0 - x.e))

\* `x as u8`: truncates toward zero and saturates at 255
AsU8(x) ==
    IF x.m # 0 /\ x.e >= 0 THEN 255
    ELSE IF TruncF32(x) > 255 THEN 255 ELSE TruncF32(x)

\* ---------------------------------------------------------------- pixel conversion

\* ((pixel >> 24) & 0xFF) as f32 / 255.0
Alpha(pixel) == DivF32(FromInt(Lane(pixel, 24)), F255)

\* the quotient cast without .min(255.0) and without saturation
ChannelByteUnclamped(c, alpha) == TruncF32(DivF32(FromInt(c), alpha))

\* (c as f32 / alpha).min(255.0) as u8
ChannelByte(c, alpha) == AsU8(MinF32(DivF32(FromInt(c), alpha), F255))

\* the closure without its alpha == 0.0 early return
PixelRunNoGuard(pixel) ==
    LET alpha == Alpha(pixel)
    IN  IF alpha = F32Zero
        \* c / 0.0 is +inf or NaN, and both give 255 after .min(255.0) as u8
        THEN [out |-> <<255, 255, 255>>, divs |-> <<F255, alpha, alpha, alpha>>]
        ELSE [out  |-> <<ChannelByte(Lane(pixel, 16), alpha),
                         ChannelByte(Lane(pixel, 8), alpha),
                         ChannelByte(Lane(pixel, 0), alpha)>>,
              divs |-> <<F255, alpha, alpha, alpha>>]

\* the closure of flat_map: the bytes emitted for one pixel, and the divisors of
\* the f32 divisions evaluated on the way (line 191: / 255.0; lines 201-203: / alpha)
PixelRun(pixel) ==
    LET alpha == Alpha(pixel)
    IN  IF alpha = F32Zero
        THEN [out |-> <<0, 0, 0>>, divs |-> <<F255>>]
        ELSE [out  |-> <<ChannelByte(Lane(pixel, 16), alpha),
                         ChannelByte(Lane(pixel, 8), alpha),
                         ChannelByte(Lane(pixel, 0), alpha)>>,
              divs |-> <<F255, alpha, alpha, alpha>>]

\* a closure that emits nothing for a transparent pixel
ConvertPixelDropTransparent(pixel) ==
    IF Lane(pixel, 24) = 0 THEN <<>> ELSE PixelRun(pixel).out

ConvertPixel(pixel) == PixelRun(pixel).out

\* ---------------------------------------------------------------- state

VARIABLES
    px, pxOut, pxDivs, pxPc,            \* one application of the flat_map closure
    fb, width, height,                  \* the DrawTarget given to render_chunked
    jobs, finished,                     \* the parallel iterator's leaf jobs
    data, writes,                       \* the collected Vec<u8> and who supplied each index
    pc, sink, encodeCalls, encArgs, encRet, result, thumbResult,
    img, target, packedBy, packPc       \* u8rgba_u32argb

pixelVars == <<px, pxOut, pxDivs, pxPc>>
pipeVars == <<fb, width, height, jobs, finished, data, writes,
              pc, sink, encodeCalls, encArgs, encRet, result, thumbResult>>
packVars == <<img, target, packedBy, packPc>>
vars == <<pixelVars, pipeVars, packVars>>

PixelIdle == px = 0 /\ pxOut = <<>> /\ pxDivs = <<>> /\ pxPc = "idle"

PipeIdle ==
    /\ fb = <<>> /\ width = 0 /\ height = 0
    /\ jobs = <<>> /\ finished = <<>> /\ data = <<>> /\ writes = {}
    /\ pc = "idle" /\ sink = <<>> /\ encodeCalls = 0 /\ encArgs = <<>>
    /\ encRet = "pending" /\ result = "pending" /\ thumbResult = "pending"

PackIdle == img = <<>> /\ target = <<>> /\ packedBy = <<>> /\ packPc = "idle"

\* ---------------------------------------------------------------- one pixel

\* every alpha and every red byte; green and blue follow from them, so each
\* (alpha, channel) pair occurs, with channels above, at and below alpha
PixelInputs ==
    { PackARGB(r, 255 - r, a, a) : r \in Byte, a \in Byte }

InitPixel == px \in PixelInputs /\ pxOut = <<>> /\ pxDivs = <<>> /\ pxPc = "input"
             /\ PipeIdle /\ PackIdle

Convert ==
    /\ pxPc = "input"
    /\ pxOut' = PixelRun(px).out
    /\ pxDivs' = PixelRun(px).divs
    /\ pxPc' = "emitted"
    /\ UNCHANGED <<px, pipeVars, packVars>>

NextPixel == Convert

SpecPixel == InitPixel /\ [][NextPixel]_vars

\* ---------------------------------------------------------------- render_chunked

MaxPixels == 3
MaxJobs == 3

\* a transparent pixel that still carries colour, an opaque one, a valid
\* premultiplied one, and one whose channels exceed its alpha
PipelinePixels ==
    { PackARGB(200, 100, 50, 0), PackARGB(255, 0, 0, 255),
      PackARGB(64, 32, 128, 128), PackARGB(200, 10, 0, 100) }

RECURSIVE SeqsUpTo(_, _)
SeqsUpTo(S, n) ==
    IF n = 0 THEN { <<>> }
    ELSE LET shorter == SeqsUpTo(S, n - 1)
         IN  shorter \cup { Append(q, x) : q \in { t \in shorter : Len(t) = n - 1 }, x \in S }

\* `x as u16`
AsU16(x) == x % 65536

\* the leaf job over input pixels lo..hi (empty when hi < lo), not yet started
NewJob(lo, hi) == [lo |-> lo, hi |-> hi, next |-> lo, out |-> <<>>]

\* DrawTarget::new(width, height) holds width * height pixels: a target of one row
InitPipe ==
    /\ fb \in SeqsUpTo(PipelinePixels, MaxPixels)
    /\ width = Len(fb) /\ height = 1
    /\ jobs = << NewJob(1, Len(fb)) >>
    /\ finished = <<>> /\ data = <<>> /\ writes = {}
    /\ pc = "convert" /\ sink = <<>> /\ encodeCalls = 0 /\ encArgs = <<>>
    /\ encRet = "pending" /\ result = "pending" /\ thumbResult = "pending"
    /\ PixelIdle /\ PackIdle

AllConverted == \A j \in 1..Len(jobs) : jobs[j].next > jobs[j].hi

\* the parallel iterator splits a job that has not started into two adjacent ones
Split(j, k) ==
    /\ pc = "convert"
    /\ Len(jobs) < MaxJobs
    /\ jobs[j].next = jobs[j].lo
    /\ jobs[j].lo <= k /\ k < jobs[j].hi
    /\ jobs' = SubSeq(jobs, 1, j - 1)
               \o << NewJob(jobs[j].lo, k), NewJob(k + 1, jobs[j].hi) >>
               \o SubSeq(jobs, j + 1, Len(jobs))
    /\ UNCHANGED <<fb, width, height, finished, data, writes, pc, sink,
                   encodeCalls, encArgs, encRet, result, thumbResult>>
    /\ UNCHANGED <<pixelVars, packVars>>

\* a worker applies the closure to the next pixel of its job
WorkerStep(j) ==
    /\ pc = "convert"
    /\ jobs[j].next <= jobs[j].hi
    /\ jobs' = [jobs EXCEPT ![j].out = @ \o ConvertPixel(fb[jobs[j].next]),
                            ![j].next = @ + 1]
    /\ UNCHANGED <<fb, width, height, finished, data, writes, pc, sink,
                   encodeCalls, encArgs, encRet, result, thumbResult>>
    /\ UNCHANGED <<pixelVars, packVars>>

\* a worker hands in the Vec of its job
WorkerFinish(j) ==
    /\ pc = "convert"
    /\ jobs[j].next > jobs[j].hi
    /\ \A i \in 1..Len(finished) : finished[i] # jobs[j].lo
    /\ finished' = Append(finished, jobs[j].lo)
    /\ UNCHANGED <<fb, width, height, jobs, data, writes, pc, sink,
                   encodeCalls, encArgs, encRet, result, thumbResult>>
    /\ UNCHANGED <<pixelVars, packVars>>

JobAt(lo) == CHOOSE j \in 1..Len(jobs) : jobs[j].lo = lo

\* the jobs in the order they finished
CollectOrderByCompletion == [i \in 1..Len(finished) |-> JobAt(finished[i])]

\* collect() appends the jobs' Vecs in the order of the split, left to right
CollectOrder == [i \in 1..Len(jobs) |-> i]

RECURSIVE ConcatParts(_, _)
ConcatParts(order, n) ==
    IF n = 0 THEN <<>> ELSE ConcatParts(order, n - 1) \o jobs[order[n]].out

\* <<lo, i>>: the job over lo.. supplied index i of the collected Vec
WritesOf(order) ==
    UNION { { <<jobs[order[n]].lo, Len(ConcatParts(order, n - 1)) + t>> :
                t \in 1..Len(jobs[order[n]].out) } : n \in 1..Len(order) }

\* the jobs' Vecs are moved into the collected Vec
Collect ==
    /\ pc = "convert"
    /\ Len(finished) = Len(jobs)
    /\ data' = ConcatParts(CollectOrder, Len(CollectOrder))
    /\ writes' = WritesOf(CollectOrder)
    /\ jobs' = <<>>
    /\ pc' = "collected"
    /\ UNCHANGED <<fb, width, height, finished, sink,
                   encodeCalls, encArgs, encRet, result, thumbResult>>
    /\ UNCHANGED <<pixelVars, packVars>>

\* the stream the encoder produces for the buffer it is given, in the units it
\* writes: the start marker FF D8, one unit per RGB triple, the end marker FF D9
EncodedStream(d) ==
    << <<255, 216>> >>
    \o [i \in 1..(Len(d) \div 3) |-> SubSeq(d, 3 * i - 2, 3 * i)]
    \o << <<255, 217>> >>

\* the encoder started while workers are still converting
EncodeCallBeforeCollect ==
    /\ pc = "convert"
    /\ pc' = "encoding"
    /\ encodeCalls' = encodeCalls + 1
    /\ encArgs' = <<Len(data), AsU16(width), AsU16(height)>>
    /\ UNCHANGED <<fb, width, height, jobs, finished, data, writes, sink,
                   encRet, result, thumbResult>>
    /\ UNCHANGED <<pixelVars, packVars>>

\* Encoder::new(w, quality), set_optimized_huffman_tables(true) and the call
\* encoder.encode(&data, width as u16, height as u16, ColorType::Rgb)
EncodeCall ==
    /\ pc = "collected"
    /\ pc' = "encoding"
    /\ encodeCalls' = encodeCalls + 1
    /\ encArgs' = <<Len(data), AsU16(width), AsU16(height)>>
    /\ UNCHANGED <<fb, width, height, jobs, finished, data, writes, sink,
                   encRet, result, thumbResult>>
    /\ UNCHANGED <<pixelVars, packVars>>

\* inside encode: the next unit of the stream goes to the sink
EncoderWrite ==
    /\ pc = "encoding"
    /\ Len(sink) < Len(EncodedStream(data))
    /\ sink' = Append(sink, EncodedStream(data)[Len(sink) + 1])
    /\ UNCHANGED <<fb, width, height, jobs, finished, data, writes, pc,
                   encodeCalls, encArgs, encRet, result, thumbResult>>
    /\ UNCHANGED <<pixelVars, packVars>>

\* inside encode: the encoder rejects its input before writing anything
EncoderReject ==
    /\ pc = "encoding"
    /\ sink = <<>>
    /\ encRet' = "encode_error"
    /\ pc' = "encode_returned"
    /\ UNCHANGED <<fb, width, height, jobs, finished, data, writes, sink,
                   encodeCalls, encArgs, result, thumbResult>>
    /\ UNCHANGED <<pixelVars, packVars>>

\* inside encode: a write to the sink fails; what was written stays written
EncoderIoError ==
    /\ pc = "encoding"
    /\ Len(sink) < Len(EncodedStream(data))
    /\ encRet' = "io_error"
    /\ pc' = "encode_returned"
    /\ UNCHANGED <<fb, width, height, jobs, finished, data, writes, sink,
                   encodeCalls, encArgs, result, thumbResult>>
    /\ UNCHANGED <<pixelVars, packVars>>

\* encode returns Ok once the whole stream is in the sink
EncoderOk ==
    /\ pc = "encoding"
    /\ sink = EncodedStream(data)
    /\ encRet' = "ok"
    /\ pc' = "encode_returned"
    /\ UNCHANGED <<fb, width, height, jobs, finished, data, writes, sink,
                   encodeCalls, encArgs, result, thumbResult>>
    /\ UNCHANGED <<pixelVars, packVars>>

IsErr(r) == r \in {"encode_error", "io_error"}

\* the result discarded instead of propagated
PropagateDropped(r) == "ok"

\* expr?; Ok(()): an Err is returned as it is, anything else ends in Ok(())
Propagate(r) == IF IsErr(r) THEN r ELSE "ok"

\* encoder.encode(..)?; Ok(())
RenderChunkedReturn ==
    /\ pc = "encode_returned"
    /\ result' = Propagate(encRet)
    /\ pc' = "returned"
    /\ UNCHANGED <<fb, width, height, jobs, finished, data, writes, sink,
                   encodeCalls, encArgs, encRet, thumbResult>>
    /\ UNCHANGED <<pixelVars, packVars>>

\* render_chunked(w, dt, 75)?; println!("done"); Ok(())
RenderThumbnailReturn ==
    /\ pc = "returned"
    /\ thumbResult' = Propagate(result)
    /\ pc' = "done"
    /\ UNCHANGED <<fb, width, height, jobs, finished, data, writes, sink,
                   encodeCalls, encArgs, encRet, result>>
    /\ UNCHANGED <<pixelVars, packVars>>

Next ==
    \/ \E j \in 1..Len(jobs) : \E k \in 1..MaxPixels : Split(j, k)
    \/ \E j \in 1..Len(jobs) : WorkerStep(j)
    \/ \E j \in 1..Len(jobs) : WorkerFinish(j)
    \/ Collect
    \/ EncodeCall
    \/ EncoderWrite
    \/ EncoderReject
    \/ EncoderIoError
    \/ EncoderOk
    \/ RenderChunkedReturn
    \/ RenderThumbnailReturn

Spec == InitPipe /\ [][Next]_vars

\* ---------------------------------------------------------------- u8rgba_u32argb

MaxImgPixels == 3
MaxPackWorkers == 2

\* RGBA pixels <<r, g, b, a>> with four different bytes each, alpha below and
\* above 128, and one with colour above its alpha
ImgPixels == { <<255, 16, 1, 254>>, <<10, 20, 30, 127>>, <<200, 100, 50, 0>> }

RECURSIVE Flatten(_)
Flatten(q) == IF q = <<>> THEN <<>> ELSE Head(q) \o Flatten(Tail(q))

\* the i-th chunk of par_chunks(4)
Chunk(i) == SubSeq(img, 4 * i - 3, 4 * i)

\* a closure that scales the colour bytes by alpha
MapChunkPremultiplied(chunk) ==
    PackARGB((chunk[1] * chunk[4]) \div 255, (chunk[2] * chunk[4]) \div 255,
             (chunk[3] * chunk[4]) \div 255, chunk[4])

\* the closure of map: r = chunk[0], g = chunk[1], b = chunk[2], a = chunk[3]
MapChunk(chunk) == PackARGB(chunk[1], chunk[2], chunk[3], chunk[4])

\* ImageBuffer<Rgba<u8>> holds 4 bytes per pixel; Vec::with_capacity is empty
\* and collect_into_vec sizes it to the number of chunks
InitPack ==
    /\ img \in { Flatten(q) : q \in SeqsUpTo(ImgPixels, MaxImgPixels) }
    /\ target = [i \in 1..(Len(img) \div 4) |-> 0]
    /\ packedBy = [i \in 1..(Len(img) \div 4) |-> 0]
    /\ packPc = "collecting"
    /\ PixelIdle /\ PipeIdle

\* worker w maps chunk i and writes slot i of the target (packedBy[i] = 0: the
\* slot is still unwritten)
PackChunk(w, i) ==
    /\ packPc = "collecting"
    /\ packedBy[i] = 0
    /\ target' = [target EXCEPT ![i] = MapChunk(Chunk(i))]
    /\ packedBy' = [packedBy EXCEPT ![i] = w]
    /\ UNCHANGED <<img, packPc, pixelVars, pipeVars>>

\* collect_into_vec returns when every slot is written
PackReturn ==
    /\ packPc = "collecting"
    /\ \A i \in 1..Len(target) : packedBy[i] # 0
    /\ packPc' = "returned"
    /\ UNCHANGED <<img, target, packedBy, pixelVars, pipeVars>>

NextPack ==
    \/ \E w \in 1..MaxPackWorkers : \E i \in 1..Len(target) : PackChunk(w, i)
    \/ PackReturn

SpecPack == InitPack /\ [][NextPack]_vars

\* ================================================================ claims

Min2(x, y) == IF x < y THEN x ELSE y

\* n / d rounded to the nearest integer, halves up (n >= 0, d > 0)
RoundDiv(n, d) == (2 * n + d) \div (2 * d)

PxAlpha == Lane(px, 24)

\* the packed red, green and blue bytes of px, in the order they are emitted
PxChannel(k) == Lane(px, 24 - 8 * k)

\* C1: for alpha a in 1..255 and a premultiplied channel c <= a, the emitted
\* byte is round(c * 255 / a) clamped to 255.
C1_RoundedUnpremultiply ==
    (pxPc = "emitted" /\ PxAlpha >= 1) =>
        \A k \in 1..3 :
            PxChannel(k) <= PxAlpha =>
                pxOut[k] = Min2(255, RoundDiv(PxChannel(k) * 255, PxAlpha))

\* C2 as stated: a pixel whose alpha byte is 0 emits (0,0,0) and no division
\* at all is performed for it.
C2_TransparentNoDivision ==
    (pxPc = "emitted" /\ PxAlpha = 0) => (pxOut = <<0, 0, 0>> /\ pxDivs = <<>>)

\* C2 as amended: a pixel whose alpha byte is 0 emits (0,0,0) whatever its
\* colour bytes are, and the only division performed for it is the
\* normalisation of alpha by 255.0: nothing is divided by alpha.
C2_TransparentNoDivisionByAlpha ==
    (pxPc = "emitted" /\ PxAlpha = 0) => (pxOut = <<0, 0, 0>> /\ pxDivs = <<F255>>)

C2_Witness ==
    /\ pxPc = "emitted" /\ PxAlpha = 0
    /\ PxChannel(1) > 0 /\ PxChannel(2) > 0
    /\ pxOut = <<0, 0, 0>>

\* C4: the conversion yields three bytes in 0..255 for every pixel word, and a
\* channel above its alpha (a >= 1), whose quotient exceeds 255, is emitted as
\* exactly 255.
C4_ClampSafety ==
    pxPc = "emitted" =>
        /\ Len(pxOut) = 3
        /\ \A k \in 1..3 :
            /\ pxOut[k] \in Byte
            /\ (PxAlpha >= 1 /\ PxChannel(k) > PxAlpha) => pxOut[k] = 255

C4_Witness ==
    /\ pxPc = "emitted" /\ PxAlpha >= 1 /\ PxAlpha < 255
    /\ PxChannel(1) > PxAlpha /\ pxOut[1] = 255
    /\ PxChannel(2) < PxAlpha /\ pxOut[2] < 255

\* C9: for alpha a >= 1 each emitted byte is min(255, c / (a/255)) truncated
\* toward zero, that is min(255, floor(c * 255 / a)); with a = 255 the colour
\* bytes come out unchanged.
C9_TruncatedQuotient ==
    (pxPc = "emitted" /\ PxAlpha >= 1) =>
        \A k \in 1..3 :
            /\ pxOut[k] = Min2(255, (PxChannel(k) * 255) \div PxAlpha)
            /\ PxAlpha = 255 => pxOut[k] = PxChannel(k)

\* the conversion of each pixel the framebuffers are made of
Reference == [p \in PipelinePixels |-> PixelRun(p).out]

\* the single-threaded reference conversion, left to right
RECURSIVE SeqConvert(_)
SeqConvert(pixels) ==
    IF pixels = <<>> THEN <<>>
    ELSE Reference[Head(pixels)] \o SeqConvert(Tail(pixels))

\* C3: the converted buffer handed to the encoder has exactly 3 bytes per pixel
\* of the framebuffer, and so has every worker's part for the pixels it has done.
C3_LengthInvariant ==
    /\ pc # "convert" => Len(data) = 3 * Len(fb)
    /\ encArgs # <<>> => encArgs[1] = 3 * Len(fb)
    /\ \A j \in 1..Len(jobs) : Len(jobs[j].out) = 3 * (jobs[j].next - jobs[j].lo)

C3_Witness ==
    /\ pc = "encoding" /\ Len(fb) >= 2
    /\ \E i, j \in 1..Len(fb) : Lane(fb[i], 24) = 0 /\ Lane(fb[j], 24) # 0
    /\ encArgs[1] = 3 * Len(fb)

\* C5: however the pixels are split among workers and in whatever order the
\* workers finish, the collected buffer equals the sequential conversion, bytes
\* 3i-2..3i (1-based) are the conversion of pixel i, and every index of the
\* buffer was supplied by exactly one worker.
C5_OrderPreservation ==
    pc # "convert" =>
        /\ data = SeqConvert(fb)
        /\ \A i \in 1..Len(fb) : SubSeq(data, 3 * i - 2, 3 * i) = Reference[fb[i]]
        /\ { x[2] : x \in writes } = 1..Len(data)
        /\ \A x, y \in writes : x[2] = y[2] => x[1] = y[1]

C5_Witness ==
    /\ pc = "collected"
    /\ Len(finished) >= 2 /\ finished[1] > finished[2]
    /\ Cardinality({ x[1] : x \in writes }) >= 2
    /\ fb[1] # fb[Len(fb)]
    /\ data = SeqConvert(fb)

\* C7: a unit reaches the sink only during the one encode call, which starts
\* after every pixel is converted and collected; encode is called at most once;
\* once encode has failed nothing more is written and encode is not called again.
C7_ConvertThenEncode ==
    [][ /\ sink' # sink => (pc = "encoding" /\ AllConverted /\ data = SeqConvert(fb))
        /\ encodeCalls' <= 1
        /\ IsErr(encRet) => (sink' = sink /\ encodeCalls' = encodeCalls /\ encRet' = encRet)
      ]_vars

C7_Witness ==
    /\ pc = "done" /\ encRet = "io_error"
    /\ sink # <<>> /\ Len(sink) < Len(EncodedStream(data))
    /\ encodeCalls = 1 /\ Len(fb) >= 1

\* C8: render_chunked returns Ok only if encode returned Ok with the whole
\* stream in the sink; when encode fails, render_chunked returns that error, and
\* render_thumbnail returns what render_chunked returned.
C8_ErrorPropagation ==
    /\ result = "ok" => (encRet = "ok" /\ sink = EncodedStream(data))
    /\ (pc \in {"returned", "done"} /\ IsErr(encRet)) => result = encRet
    /\ pc = "done" => thumbResult = result

C8_Witness ==
    /\ pc = "done" /\ encRet = "io_error" /\ sink # <<>>
    /\ result = "io_error" /\ thumbResult = "io_error"

\* C10: u8rgba_u32argb turns 4*N bytes into N words in pixel order, word i
\* carrying A, R, G, B of bytes 4i-3..4i (1-based R, G, B, A) in bits 24..31,
\* 16..23, 8..15, 0..7, each byte unchanged, whichever worker packed it.
C10_PackARGB ==
    packPc = "returned" =>
        /\ 4 * Len(target) = Len(img)
        /\ \A i \in 1..Len(target) :
            /\ Lane(target[i], 24) = img[4 * i]
            /\ Lane(target[i], 16) = img[4 * i - 3]
            /\ Lane(target[i], 8) = img[4 * i - 2]
            /\ Lane(target[i], 0) = img[4 * i - 1]
            /\ (target[i] \div (2^24)) \in -128..127

C10_Witness ==
    /\ packPc = "returned" /\ Len(target) >= 2
    /\ \E i, j \in 1..Len(target) :
        /\ packedBy[i] # packedBy[j] /\ i < j /\ target[i] # target[j]
        /\ Lane(target[i], 24) = 0 /\ Lane(target[i], 16) = 200
        /\ Lane(target[j], 24) = 254

====
